---- MODULE Spec2Model ----
(***************************************************************************)
(* Model of src/monitor_serial.py: a script that opens a serial port,      *)
(* polls it for a fixed window, prints what it reads (leniently decoded    *)
(* as UTF-8) and closes the port.  Any exception is caught at the top      *)
(* level, reported as "Error: <message>" and turned into exit status 1.    *)
(*                                                                         *)
(* Time is counted in ticks of one poll interval (0.1 s).                  *)
(***************************************************************************)
EXTENDS Integers, Sequences, FiniteSets, TLC

\* ---------------------------------------------------------------- constants

\* while time.time() - start_time < 10   (10 s = 100 ticks of 0.1 s)
Duration == 100
\* time.sleep(0.1)                        (0.1 s = 1 tick)
PollInterval == 1
\* serial.Serial(..., timeout=1)          (1 s = 10 ticks)
ReadTimeout == 10
\* "-" * 60
SepWidth == 60

\* ------------------------------------------------------------------- bounds

\* how many bytes the device sends while the port is open
MaxBytes == 2

\* the byte values the device may send: 'A', an invalid byte, the lead byte
\* of a two-byte character, a continuation byte, the lead byte of a
\* three-byte character
ByteValues == {65, 255, 195, 169, 226}

\* the value of time.time() when the script starts
BootTimes == {3}

\* ------------------------------------------------------------------ state

VARIABLES
    pc,           \* the statement about to be executed
    ser,          \* the device handle: "none", "open" or "closed"
    now,          \* time.time(), in ticks
    start_time,   \* the recorded start timestamp
    inbuf,        \* the bytes buffered in the port and not yet read
    output,       \* everything written to standard output
    exit_status,  \* -1 while running, then the process exit status
    exc,          \* the operation that raised, or "none"
    emitted,      \* history: every byte the device sent, in order
    sentBeforeStart, \* history: how many of them came before start_time
    sentByDeadline,  \* history: how many of them came before the deadline
    chunks,       \* history: the byte chunks returned by read, in order
    didRead       \* history: the current iteration took the read branch

vars == <<pc, ser, now, start_time, inbuf, output, exit_status, exc,
          emitted, sentBeforeStart, sentByDeadline, chunks, didRead>>

\* ----------------------------------------------------------------- output

Tok(k) == [kind |-> k, n |-> 0]
\* print("Connected to ESP32. Monitoring output for 10 seconds...")
StatusLine == Tok("status")
\* print("-" * 60): a line of SepWidth dashes
SepLine == [kind |-> "sep", n |-> SepWidth]
\* the "\n" that starts the footer print
BareNewline == Tok("newline")
\* print("Monitoring complete.")
CompleteLine == Tok("complete")
\* print(f"Error: {e}")
ErrorLine == Tok("error")
\* one character of decoded device text, by code point
Char(cp) == [kind |-> "char", n |-> cp]

RECURSIVE Chars(_)
Chars(cps) ==
    IF cps = <<>> THEN <<>> ELSE <<Char(Head(cps))>> \o Chars(Tail(cps))

\* a variant of PrintData: print(data), which ends the text with a newline
PrintDataWithNewline(text) == Chars(text) \o <<Char(10)>>

\* print(data, end=''): the decoded text and nothing else
PrintData(text) == Chars(text)

\* ------------------------------------------- bytes.decode('utf-8', errors)

IsContinuation(b) == b \in 128..191

\* the second byte of a three-byte character: a continuation byte that makes
\* neither an overlong form (lead E0) nor a surrogate (lead ED)
IsSecondOf3(b1, b2) ==
    /\ IsContinuation(b2)
    /\ ~(IF b2 < 160 THEN b1 = 224 ELSE b1 = 237)

\* the second byte of a four-byte character: a continuation byte that makes
\* neither an overlong form (lead F0) nor a code point above U+10FFFF (F4)
IsSecondOf4(b1, b2) ==
    /\ IsContinuation(b2)
    /\ ~(IF b2 < 144 THEN b1 = 240 ELSE b1 = 244)

Unit(k, l, c) == [kind |-> k, len |-> l, cp |-> c]

\* The decoder's step at position i of s: either one character ("char", its
\* length and code point) or an error and the number of bytes it covers:
\* "start" (invalid start byte), "cont" (invalid continuation byte) or "end"
\* (unexpected end of data: the truncated sequence up to the end of s).
Utf8Unit(s, i) ==
    LET rem == Len(s) - i + 1
        b1 == s[i]
    IN  IF b1 < 128 THEN Unit("char", 1, b1)
        ELSE IF b1 < 194 THEN Unit("start", 1, 0)
        ELSE IF b1 < 224 THEN
            IF rem < 2 THEN Unit("end", rem, 0)
            ELSE IF ~IsContinuation(s[i + 1]) THEN Unit("cont", 1, 0)
            ELSE Unit("char", 2, (b1 - 192) * 64 + (s[i + 1] - 128))
        ELSE IF b1 < 240 THEN
            IF rem < 2 THEN Unit("end", rem, 0)
            ELSE IF ~IsSecondOf3(b1, s[i + 1]) THEN Unit("cont", 1, 0)
            ELSE IF rem < 3 THEN Unit("end", rem, 0)
            ELSE IF ~IsContinuation(s[i + 2]) THEN Unit("cont", 2, 0)
            ELSE Unit("char", 3, (b1 - 224) * 4096 + (s[i + 1] - 128) * 64
                                 + (s[i + 2] - 128))
        ELSE IF b1 < 245 THEN
            IF rem < 2 THEN Unit("end", rem, 0)
            ELSE IF ~IsSecondOf4(b1, s[i + 1]) THEN Unit("cont", 1, 0)
            ELSE IF rem < 3 THEN Unit("end", rem, 0)
            ELSE IF ~IsContinuation(s[i + 2]) THEN Unit("cont", 2, 0)
            ELSE IF rem < 4 THEN Unit("end", rem, 0)
            ELSE IF ~IsContinuation(s[i + 3]) THEN Unit("cont", 3, 0)
            ELSE Unit("char", 4, (b1 - 240) * 262144 + (s[i + 1] - 128) * 4096
                                 + (s[i + 2] - 128) * 64 + (s[i + 3] - 128))
        ELSE Unit("start", 1, 0)

\* s.decode('utf-8', errors) from position i on: the code points, and
\* whether the decode returned (ok) or raised UnicodeDecodeError.  With
\* errors = "ignore" the bytes an error covers are skipped and decoding
\* goes on after them; with "strict" the first error raises.
RECURSIVE DecodeFrom(_, _, _)
DecodeFrom(s, i, errors) ==
    IF i > Len(s) THEN [ok |-> TRUE, text |-> <<>>]
    ELSE LET u == Utf8Unit(s, i)
         IN  IF u.kind = "char"
             THEN LET rest == DecodeFrom(s, i + u.len, errors)
                  IN  [ok |-> rest.ok, text |-> <<u.cp>> \o rest.text]
             ELSE IF errors = "ignore"
             THEN DecodeFrom(s, i + u.len, errors)
             ELSE [ok |-> FALSE, text |-> <<>>]

\* a variant of Decode: .decode('utf-8'), which raises on invalid bytes
DecodeStrict(s) == DecodeFrom(s, 1, "strict")

\* .decode('utf-8', errors='ignore')
Decode(s) == DecodeFrom(s, 1, "ignore")

\* ----------------------------------------------------------------- helpers

RECURSIVE Flatten(_)
Flatten(ss) == IF ss = <<>> THEN <<>> ELSE Head(ss) \o Flatten(Tail(ss))

\* time.time() - start_time < 10
WithinWindow == now - start_time < Duration

\* an exception propagates to the except clause
Raise(op) ==
    /\ pc' = "except"
    /\ exc' = op

\* a variant of SerRead: the last buffered byte is taken but not returned
SerReadShort(buf, n) == SubSeq(buf, 1, n - 1)

\* ser.read(n) with n bytes already buffered returns them, within the
\* read timeout
SerRead(buf, n) == SubSeq(buf, 1, n)

ReadDelays == 0..ReadTimeout

\* a variant of AfterIfBody: the sleep is the else branch of the if, so an
\* iteration that read goes straight back to the loop test
NextIteration == "while"

\* the statement that follows the if body: time.sleep(0.1), at the loop's
\* own indentation
AfterIfBody == "sleep"

\* --------------------------------------------------------------- the script

Init ==
    /\ pc = "open"
    /\ ser = "none"
    /\ now \in BootTimes
    /\ start_time = 0
    /\ inbuf = <<>>
    /\ output = <<>>
    /\ exit_status = -1
    /\ exc = "none"
    /\ emitted = <<>>
    /\ sentBeforeStart = 0
    /\ sentByDeadline = 0
    /\ chunks = <<>>
    /\ didRead = FALSE

\* a variant of Open: the status line is printed before the port is opened
OpenAfterBanner ==
    /\ pc = "open"
    /\ output' = Append(output, StatusLine)
    /\ \/ /\ ser' = "open"
          /\ pc' = "header"
          /\ exc' = exc
       \/ /\ Raise("open")
          /\ ser' = ser
    /\ UNCHANGED <<now, start_time, inbuf, exit_status, emitted,
                   sentBeforeStart, sentByDeadline, chunks, didRead>>

\* ser = serial.Serial('/dev/cu.SLAB_USBtoUART', 115200, timeout=1)
Open ==
    /\ pc = "open"
    /\ \/ /\ ser' = "open"
          /\ pc' = "header"
          /\ exc' = exc
       \/ /\ Raise("open")
          /\ ser' = ser
    /\ UNCHANGED <<now, start_time, inbuf, output, exit_status, emitted,
                   sentBeforeStart, sentByDeadline, chunks, didRead>>

\* a variant of Header: a separator line comes before the status line too
HeaderSeparatorFirst ==
    /\ pc = "header"
    /\ output' = output \o <<SepLine, StatusLine, SepLine>>
    /\ start_time' = now
    /\ pc' = "while"
    /\ UNCHANGED <<ser, now, inbuf, exit_status, exc, emitted,
                   sentBeforeStart, sentByDeadline, chunks, didRead>>

\* the two header prints, then start_time = time.time()
Header ==
    /\ pc = "header"
    /\ output' = output \o <<StatusLine, SepLine>>
    /\ start_time' = now
    /\ pc' = "while"
    /\ UNCHANGED <<ser, now, inbuf, exit_status, exc, emitted,
                   sentBeforeStart, sentByDeadline, chunks, didRead>>

\* while time.time() - start_time < 10:
While ==
    /\ pc = "while"
    /\ IF WithinWindow
       THEN pc' = "in_waiting" /\ didRead' = FALSE
       ELSE pc' = "footer" /\ didRead' = didRead
    /\ UNCHANGED <<ser, now, start_time, inbuf, output, exit_status, exc,
                   emitted, sentBeforeStart, sentByDeadline, chunks>>

\* if ser.in_waiting > 0:
InWaiting ==
    /\ pc = "in_waiting"
    /\ \/ /\ pc' = IF Len(inbuf) > 0 THEN "read" ELSE "sleep"
          /\ exc' = exc
       \/ Raise("in_waiting")
    /\ UNCHANGED <<ser, now, start_time, inbuf, output, exit_status,
                   emitted, sentBeforeStart, sentByDeadline, chunks, didRead>>

\* data = ser.read(ser.in_waiting).decode('utf-8', errors='ignore')
\* print(data, end=''); sys.stdout.flush()
ReadDecodePrint ==
    /\ pc = "read"
    /\ \/ \E d \in ReadDelays :
            LET n == Len(inbuf)
                chunk == SerRead(inbuf, n)
                data == Decode(chunk)
            IN  /\ inbuf' = SubSeq(inbuf, n + 1, Len(inbuf))
                /\ chunks' = Append(chunks, chunk)
                /\ now' = now + d
                /\ didRead' = TRUE
                /\ IF data.ok
                   THEN /\ output' = output \o PrintData(data.text)
                        /\ pc' = AfterIfBody
                        /\ exc' = exc
                   ELSE /\ Raise("decode")
                        /\ output' = output
       \/ /\ Raise("read")
          /\ UNCHANGED <<inbuf, chunks, now, didRead, output>>
    /\ UNCHANGED <<ser, start_time, exit_status, emitted, sentBeforeStart,
                   sentByDeadline>>

\* a variant of Sleep: time.sleep(1)
SleepOneSecond ==
    /\ pc = "sleep"
    /\ now' = now + 10 * PollInterval
    /\ pc' = "while"
    /\ UNCHANGED <<ser, start_time, inbuf, output, exit_status, exc, emitted,
                   sentBeforeStart, sentByDeadline, chunks, didRead>>

\* time.sleep(0.1)
Sleep ==
    /\ pc = "sleep"
    /\ now' = now + PollInterval
    /\ pc' = "while"
    /\ UNCHANGED <<ser, start_time, inbuf, output, exit_status, exc, emitted,
                   sentBeforeStart, sentByDeadline, chunks, didRead>>

\* print("\n" + "-" * 60); print("Monitoring complete.")
Footer ==
    /\ pc = "footer"
    /\ output' = output \o <<BareNewline, SepLine, CompleteLine>>
    /\ pc' = "close"
    /\ UNCHANGED <<ser, now, start_time, inbuf, exit_status, exc, emitted,
                   sentBeforeStart, sentByDeadline, chunks, didRead>>

\* ser.close(), after which the script ends and the process exits with 0
Close ==
    /\ pc = "close"
    /\ \/ /\ ser' = "closed"
          /\ pc' = "exit"
          /\ exit_status' = 0
          /\ exc' = exc
       \/ /\ Raise("close")
          /\ UNCHANGED <<ser, exit_status>>
    /\ UNCHANGED <<now, start_time, inbuf, output, emitted, sentBeforeStart,
                   sentByDeadline, chunks, didRead>>

\* a variant of Except: the error is printed but sys.exit(1) is missing
ExceptExitsZero ==
    /\ pc = "except"
    /\ output' = Append(output, ErrorLine)
    /\ exit_status' = 0
    /\ pc' = "exit"
    /\ UNCHANGED <<ser, now, start_time, inbuf, exc, emitted,
                   sentBeforeStart, sentByDeadline, chunks, didRead>>

\* except Exception as e: print(f"Error: {e}"); sys.exit(1)
Except ==
    /\ pc = "except"
    /\ output' = Append(output, ErrorLine)
    /\ exit_status' = 1
    /\ pc' = "exit"
    /\ UNCHANGED <<ser, now, start_time, inbuf, exc, emitted,
                   sentBeforeStart, sentByDeadline, chunks, didRead>>

\* ------------------------------------------------------------- environment

\* The device sends one byte; the port buffers it while it is open.
DeviceEmit ==
    /\ ser = "open"
    /\ pc # "exit"
    /\ Len(emitted) < MaxBytes
    /\ \E b \in ByteValues :
        /\ inbuf' = Append(inbuf, b)
        /\ emitted' = Append(emitted, b)
    /\ sentBeforeStart' =
         IF pc = "header" THEN Len(emitted) + 1 ELSE sentBeforeStart
    /\ sentByDeadline' =
         IF pc = "header" \/ WithinWindow
         THEN Len(emitted) + 1 ELSE sentByDeadline
    /\ UNCHANGED <<pc, ser, now, start_time, output, exit_status, exc,
                   chunks, didRead>>

Step ==
    \/ Open
    \/ Header
    \/ While
    \/ InWaiting
    \/ ReadDecodePrint
    \/ Sleep
    \/ Footer
    \/ Close
    \/ Except

Next == Step \/ DeviceEmit

Spec == Init /\ [][Next]_vars

\* the interpreter always runs the next statement; the device need not send
FairSpec == Spec /\ WF_vars(Step)

\* ------------------------------------------------ vocabulary of the claims

LoopPcs == {"while", "in_waiting", "read", "sleep"}
AfterLoopPcs == {"footer", "close", "except", "exit"}

Elapsed == now - start_time
Exited == pc = "exit"
NormalExit == pc = "exit" /\ exit_status = 0
Opened == ser # "none"

\* the bytes read so far
Received == Flatten(chunks)

IsPrefix(a, b) == Len(a) <= Len(b) /\ a = SubSeq(b, 1, Len(a))

HasTok(t) == \E i \in 1..Len(output) : output[i] = t

CountTok(t) == Cardinality({i \in 1..Len(output) : output[i] = t})

\* the code points of the device text in the output, in order
RECURSIVE TextOf(_)
TextOf(out) ==
    IF out = <<>> THEN <<>>
    ELSE IF Head(out).kind = "char" THEN <<Head(out).n>> \o TextOf(Tail(out))
    ELSE TextOf(Tail(out))

DataOut == TextOf(output)

\* the concatenation of the chunks' lenient decodes
RECURSIVE ChunkText(_)
ChunkText(cs) ==
    IF cs = <<>> THEN <<>> ELSE Decode(Head(cs)).text \o ChunkText(Tail(cs))

\* the ASCII values of a sequence of bytes or code points, in order
RECURSIVE AsciiOf(_)
AsciiOf(s) ==
    IF s = <<>> THEN <<>>
    ELSE IF Head(s) < 128 THEN <<Head(s)>> \o AsciiOf(Tail(s))
    ELSE AsciiOf(Tail(s))

\* the valid multi-byte characters of s, each as <<first index, length>>
RECURSIVE MultiByteChars(_, _)
MultiByteChars(s, i) ==
    IF i > Len(s) THEN {}
    ELSE LET u == Utf8Unit(s, i)
         IN  (IF u.kind = "char" /\ u.len > 1 THEN {<<i, u.len>>} ELSE {})
             \cup MultiByteChars(s, i + u.len)

\* how many bytes precede each boundary between two chunks
Boundaries(cs) ==
    {Len(Flatten(SubSeq(cs, 1, k))) : k \in 1..(Len(cs) - 1)}

\* some chunk boundary falls inside a valid multi-byte character
SplitsAChar(cs) ==
    \E c \in MultiByteChars(Flatten(cs), 1), b \in Boundaries(cs) :
        c[1] <= b /\ b < c[1] + c[2] - 1

HeaderLines == <<StatusLine, SepLine>>
FooterLines == <<BareNewline, SepLine, CompleteLine>>

\* ------------------------------------------------------------------ claims

\* C1: in every run in which open succeeded, the device has been closed by
\* the time the process has exited, whatever the exit path.
C1_ClosedOnEveryExit ==
    (Exited /\ Opened) => ser = "closed"

\* C2: the poll loop terminates, and is never still running later than
\* monitoring duration + poll interval + read timeout after start_time.
C2_LoopTerminatesInTime ==
    /\ [](pc \in LoopPcs \cup {"footer"}
            => Elapsed <= Duration + PollInterval + ReadTimeout)
    /\ <>(pc \in AfterLoopPcs)

\* C2 witness: the loop has ended after a last iteration that read data and
\* ran past the deadline.
C2_Witness ==
    /\ pc = "footer"
    /\ chunks # <<>>
    /\ Elapsed > Duration + PollInterval

\* C3: when open fails nothing but the error line is ever printed, no
\* statement of the loop is reached, and the process exits with status 1
\* having printed exactly the error line.
C3_OpenFailure ==
    exc = "open" =>
        /\ pc \in {"except", "exit"}
        /\ ~HasTok(StatusLine) /\ ~HasTok(SepLine)
        /\ chunks = <<>>
        /\ Exited => (output = <<ErrorLine>> /\ exit_status = 1)

\* C3 witness: the process has exited after a failed open.
C3_Witness == Exited /\ exc = "open" /\ ser = "none"

C5_ExitStatus ==
    /\ [](exit_status \in {-1, 0, 1})
    /\ [](Exited =>
            /\ exit_status \in {0, 1}
            /\ (exit_status = 0) <=> (exc = "none")
            /\ exit_status = 0 => (Elapsed >= Duration /\ ser = "closed")
            /\ CountTok(ErrorLine) = (IF exc = "none" THEN 0 ELSE 1))
    /\ [][exc # "none" =>
            /\ exc' = exc
            /\ ser' = ser
            /\ chunks' = chunks
            /\ pc' \in {"except", "exit"}]_vars
    /\ <>Exited

\* C5 witness: a run has ended with status 1 after a read failed in an
\* iteration that followed a successful read.
C5_Witness ==
    Exited /\ exit_status = 1 /\ exc = "read" /\ chunks # <<>>

\* C6 as stated: the device text printed (the per-chunk decodes, one after
\* the other) is the lenient decode of all the bytes read, however the
\* polls split them.
C6_Original ==
    DataOut = Decode(Received).text

\* C6 amended: the same, provided no chunk boundary falls inside a valid
\* multi-byte character.
C6_ChunkedDecode ==
    ~SplitsAChar(chunks) => DataOut = Decode(Received).text

\* C6 witness: two chunks were read, the first ending in the lead byte of a
\* multi-byte character that the second does not continue.
C6_Witness ==
    /\ Len(chunks) = 2
    /\ chunks[1] = <<195>>
    /\ ~SplitsAChar(chunks)

C8_MalformedBytesAreHarmless ==
    /\ exc # "decode"
    /\ AsciiOf(DataOut) = AsciiOf(Received)
    /\ (pc \in {"footer", "close"} /\ exc = "none") => Elapsed >= Duration
    /\ (Exited /\ exc \notin {"open", "in_waiting", "read", "close"})
           => exit_status = 0

\* C8 witness: a run that read the invalid byte 0xFF followed by 'A' in one
\* chunk has completed normally with 'A' printed.
C8_Witness ==
    /\ NormalExit
    /\ chunks = << <<255, 65>> >>
    /\ DataOut = <<65>>

\* C9 as stated: an iteration that read data does not sleep.
C9_Original ==
    [][(pc = "sleep" /\ pc' = "while") => ~didRead]_vars

\* C9 amended: an iteration reads exactly when bytes are buffered, and
\* every iteration, whether it read or not, then sleeps for the poll
\* interval before the loop test is made again.
C9_EveryIterationSleeps ==
    /\ [][(pc = "in_waiting" /\ pc' \notin {"in_waiting", "except"})
            => pc' = (IF Len(inbuf) > 0 THEN "read" ELSE "sleep")]_vars
    /\ [][(pc = "read" /\ pc' \notin {"read", "except"})
            => (pc' = "sleep" /\ didRead' /\ inbuf' = <<>>
                /\ output' = output \o Chars(Decode(inbuf).text))]_vars
    /\ [][(pc = "sleep" /\ pc' # "sleep")
            => (pc' = "while" /\ now' = now + PollInterval)]_vars
    /\ [][(pc' = "while" /\ pc # "while") => pc \in {"header", "sleep"}]_vars

\* C9 witness: an iteration that read data is about to sleep.
C9_Witness == pc = "sleep" /\ didRead

\* C10: the completion message and the error line never appear in the same
\* run: once the completion message is printed the process exits with 0.
C10_CompleteMeansSuccess ==
    /\ ~(HasTok(CompleteLine) /\ HasTok(ErrorLine))
    /\ (Exited /\ HasTok(CompleteLine)) => exit_status = 0

====
